---- MODULE Spec2Model ----
(***************************************************************************)
(* Model of package frac (src/frac.go): the rational type F{N, D}, its     *)
(* value-receiver methods, Norm, GCD and LCM.                              *)
(*                                                                         *)
(* Go's int is 64 bits wide.  Every input is drawn from a range whose      *)
(* products stay far below 2^63, so the unbounded integers of TLA+ agree   *)
(* with Go's int on every value computed here.  Integer division and       *)
(* remainder follow Go: the quotient truncates toward zero, the remainder  *)
(* takes the sign of the dividend, and a zero divisor panics.  A panic is  *)
(* modelled by the predicates named ...Panics, one per function, built     *)
(* from the divisors of that function's body.                              *)
(***************************************************************************)
EXTENDS Integers, Sequences, FiniteSets, TLC

\* ------------------------------------------------------------- bounds ----
\* operands of a single call: N, D in -MaxVal..MaxVal
MaxVal == 4
\* operands of a chain of calls: N, D in -MaxChainVal..MaxChainVal
MaxChainVal == 3
\* length of a chain of method calls
MaxChain == 3
\* arguments of the GCD loop: -MaxGCDArg..MaxGCDArg
MaxGCDArg == 6

\* ------------------------------------------------- Go integer arithmetic --
\* abs (src/frac.go:202)
abs(x) == IF x < 0 THEN -x ELSE x

\* Go's x / y for y # 0: truncated toward zero
Quo(a, b) ==
    LET q == abs(a) \div abs(b)
    IN  IF (a < 0) # (b < 0) THEN -q ELSE q

\* Go's x % y for y # 0: sign of the dividend
Rem(a, b) == a - b * Quo(a, b)

\* ------------------------------------------------------------ GCD, LCM ----
RECURSIVE GCD(_, _)
GCD(x, y) == IF y # 0 THEN GCD(y, Rem(x, y)) ELSE abs(x)

\* x / GCD(x, y) at src/frac.go:198 divides by zero
LCMPanics(x, y) == ~(x = y \/ x = -y) /\ GCD(x, y) = 0

\* LCM without the final abs
LCMNoAbs(x, y) ==
    IF x = y \/ x = -y THEN x
    ELSE Quo(x, GCD(x, y)) * y

LCM(x, y) ==
    IF x = y \/ x = -y THEN x
    ELSE abs(Quo(x, GCD(x, y)) * y)

\* ------------------------------------------------------------------ F ----
F(n, d) == [N |-> n, D |-> d]

Mul(x, y) == F(x.N * y.N, x.D * y.D)

\* Div without the negation of a divisor whose numerator is negative
DivNoNeg(x, y) == F(x.N * y.D, x.D * y.N)

Div(x, y) ==
    LET y1 == IF y.N < 0 THEN F(-y.N, -y.D) ELSE y
    IN  F(x.N * y1.D, x.D * y1.N)

Add(x, y) ==
    IF x.D # y.D
    THEN LET xN == x.N * y.D
             yN == y.N * x.D
             xD == x.D * y.D
         IN  F(xN + yN, xD)
    ELSE F(x.N + y.N, x.D)

\* Sub without y.N *= x.D
SubNoScale(x, y) ==
    IF x.D # y.D
    THEN F(x.N * y.D - y.N, x.D * y.D)
    ELSE F(x.N - y.N, x.D)

Sub(x, y) ==
    IF x.D # y.D
    THEN LET xN == x.N * y.D
             yN == y.N * x.D
             xD == x.D * y.D
         IN  F(xN - yN, xD)
    ELSE F(x.N - y.N, x.D)

\* x.N /= d, x.D /= d at src/frac.go:88-89 divide by zero
ReducePanics(x) == GCD(x.N, x.D) = 0

\* Reduce without the negation of a negative denominator
ReduceNoSign(x) ==
    LET d == GCD(x.N, x.D)
    IN  F(Quo(x.N, d), Quo(x.D, d))

Reduce(x) ==
    LET d  == GCD(x.N, x.D)
        n1 == Quo(x.N, d)
        d1 == Quo(x.D, d)
    IN  IF d1 < 0 THEN F(-n1, -d1) ELSE F(n1, d1)

\* x.Reduce(), LCM(...) or m / x.D at src/frac.go:102-103 divides by zero
NormToPanics(x, y) ==
    /\ x.D # y.D
    /\ \/ ReducePanics(x)
       \/ LCMPanics(Reduce(x).D, y.D)
       \/ x.D = 0

NormTo(x, y) ==
    IF x.D = y.D THEN x
    ELSE LET m == LCM(Reduce(x).D, y.D)
         IN  F(Quo(m, x.D) * x.N, m)

Inv(x) == IF x.N < 0 THEN F(-x.D, -x.N) ELSE F(x.D, x.N)

Abs(x) == F(abs(x.N), abs(x.D))

Cmp(x, y) ==
    LET xN == IF x.D # y.D THEN x.N * y.D ELSE x.N
        yN == IF x.D # y.D THEN y.N * x.D ELSE y.N
    IN  IF xN < yN THEN -1
        ELSE IF xN > yN THEN 1
        ELSE 0

\* x.N ^ x.D < 0: the sign bit of the xor is the xor of the sign bits
IsNeg(x) == (x.N < 0) # (x.D < 0)

\* 1 / x.D at src/frac.go:151 divides by zero
AssertPanics(x) == x.D = 0

\* Assert returns its receiver
AssertF(x) == x

\* the clamped common denominator of Norm (src/frac.go:174-179)
NormM(x, y) ==
    LET m == LCM(Reduce(x).D, Reduce(y).D)
    IN  IF m <= x.D THEN x.D
        ELSE IF m < y.D THEN y.D
        ELSE m

\* x.Reduce(), y.Reduce(), LCM(...), m / x.D or m / y.D divides by zero
NormPanics(x, y) ==
    /\ x.D # y.D
    /\ \/ ReducePanics(x)
       \/ ReducePanics(y)
       \/ LCMPanics(Reduce(x).D, Reduce(y).D)
       \/ x.D = 0
       \/ y.D = 0

\* Norm returns a pair of fractions
Norm(x, y) ==
    IF x.D = y.D THEN <<x, y>>
    ELSE LET m == NormM(x, y)
         IN  <<F(Quo(m, x.D) * x.N, m), F(Quo(m, y.D) * y.N, m)>>

\* float64(x.N) / float64(x.D): IEEE 754 division, which never panics; a
\* finite quotient is kept as the exact pair it approximates
Float64(x) ==
    IF x.D # 0 THEN [class |-> "finite", N |-> x.N, D |-> x.D]
    ELSE IF x.N > 0 THEN [class |-> "+Inf", N |-> x.N, D |-> x.D]
    ELSE IF x.N < 0 THEN [class |-> "-Inf", N |-> x.N, D |-> x.D]
    ELSE [class |-> "NaN", N |-> x.N, D |-> x.D]

\* strconv.AppendInt(b, n, 10), as a sequence of characters
Digit(d) == <<"0", "1", "2", "3", "4", "5", "6", "7", "8", "9">>[d + 1]

RECURSIVE Digits(_)
Digits(n) == IF n < 10 THEN <<Digit(n)>> ELSE Append(Digits(n \div 10), Digit(n % 10))

AppendInt(b, n) == IF n < 0 THEN b \o <<"-">> \o Digits(-n) ELSE b \o Digits(n)

String(x) ==
    LET x1 == IF x.D < 0 THEN F(-x.N, -x.D) ELSE x
    IN  AppendInt(Append(AppendInt(<<>>, x1.N), "/"), x1.D)

\* ------------------------------------------------------------- state ----
VARIABLES
    x, y,        \* the operands the program was given
    acc,         \* the fraction the next method is called on
    acc2,        \* the second fraction returned by Norm
    cmp,         \* the int returned by Cmp
    neg,         \* the bool returned by IsNeg
    flt,         \* the float64 returned by Float64
    str,         \* the string returned by String
    calls,       \* the calls made so far, oldest first
    limit,       \* how many calls the program makes
    panicked,    \* a call panicked (integer divide by zero)
    a, b,        \* the arguments of GCD and LCM
    gx, gy,      \* the locals x, y of GCD's loop
    ipc,         \* "idle", "gcd_loop", "gcd_done", "lcm_done", "lcm_panic"
    ires,        \* the int returned by GCD or LCM
    steps        \* iterations of GCD's loop taken

vars == <<x, y, acc, acc2, cmp, neg, flt, str, calls, limit, panicked,
          a, b, gx, gy, ipc, ires, steps>>

fracVars == <<x, y, acc, acc2, cmp, neg, flt, str, calls, limit, panicked>>
intVars == <<a, b, gx, gy, ipc, ires, steps>>

Fracs(k) == {F(n, d) : n \in -k..k, d \in -k..k}

InitFrac(k, l) ==
    /\ x \in Fracs(k)
    /\ y \in Fracs(k)
    /\ acc = x
    /\ acc2 = y
    /\ cmp = 0
    /\ neg = FALSE
    /\ flt = Float64(F(0, 1))
    /\ str = <<>>
    /\ calls = <<>>
    /\ limit = l
    /\ panicked = FALSE

InitInt(k) ==
    /\ a \in -k..k
    /\ b \in -k..k
    /\ gx = 0
    /\ gy = 0
    /\ ipc = "idle"
    /\ ires = 0
    /\ steps = 0

\* ---------------------------------------------------- calls on fractions --
CanCall == Len(calls) < limit /\ ~panicked

\* a call that returns a fraction without any division
Returns(name, r) ==
    /\ CanCall
    /\ calls' = Append(calls, name)
    /\ acc' = r
    /\ UNCHANGED <<x, y, acc2, cmp, neg, flt, str, limit, panicked>>
    /\ UNCHANGED intVars

\* a call that panics
Panics(name) ==
    /\ calls' = Append(calls, name)
    /\ panicked' = TRUE
    /\ UNCHANGED <<x, y, acc, acc2, cmp, neg, flt, str, limit>>
    /\ UNCHANGED intVars

CallMul == Returns("Mul", Mul(acc, y))

CallDiv == Returns("Div", Div(acc, y))

CallAdd == Returns("Add", Add(acc, y))

CallSub == Returns("Sub", Sub(acc, y))

CallReduce ==
    /\ CanCall
    /\ IF ReducePanics(acc) THEN Panics("Reduce")
       ELSE Returns("Reduce", Reduce(acc))

CallNormTo ==
    /\ CanCall
    /\ IF NormToPanics(acc, y) THEN Panics("NormTo")
       ELSE Returns("NormTo", NormTo(acc, y))

CallInv == Returns("Inv", Inv(acc))

CallAbs == Returns("Abs", Abs(acc))

CallAssert ==
    /\ CanCall
    /\ IF AssertPanics(acc) THEN Panics("Assert")
       ELSE Returns("Assert", AssertF(acc))

CallCmp ==
    /\ CanCall
    /\ calls' = Append(calls, "Cmp")
    /\ cmp' = Cmp(acc, y)
    /\ UNCHANGED <<x, y, acc, acc2, neg, flt, str, limit, panicked>>
    /\ UNCHANGED intVars

CallIsNeg ==
    /\ CanCall
    /\ calls' = Append(calls, "IsNeg")
    /\ neg' = IsNeg(acc)
    /\ UNCHANGED <<x, y, acc, acc2, cmp, flt, str, limit, panicked>>
    /\ UNCHANGED intVars

CallFloat64 ==
    /\ CanCall
    /\ calls' = Append(calls, "Float64")
    /\ flt' = Float64(acc)
    /\ UNCHANGED <<x, y, acc, acc2, cmp, neg, str, limit, panicked>>
    /\ UNCHANGED intVars

CallString ==
    /\ CanCall
    /\ calls' = Append(calls, "String")
    /\ str' = String(acc)
    /\ UNCHANGED <<x, y, acc, acc2, cmp, neg, flt, limit, panicked>>
    /\ UNCHANGED intVars

CallNorm ==
    /\ CanCall
    /\ IF NormPanics(acc, y) THEN Panics("Norm")
       ELSE /\ calls' = Append(calls, "Norm")
            /\ acc' = Norm(acc, y)[1]
            /\ acc2' = Norm(acc, y)[2]
            /\ UNCHANGED <<x, y, cmp, neg, flt, str, limit, panicked>>
            /\ UNCHANGED intVars

\* --------------------------------------------------- calls on integers ----
\* GCD is entered: its parameters x, y hold the arguments
GCDEnter ==
    /\ ipc = "idle"
    /\ gx' = a
    /\ gy' = b
    /\ ipc' = "gcd_loop"
    /\ UNCHANGED <<a, b, ires, steps>>
    /\ UNCHANGED fracVars

\* one iteration of for y != 0 { x, y = y, x%y }
GCDStep ==
    /\ ipc = "gcd_loop"
    /\ gy # 0
    /\ gx' = gy
    /\ gy' = Rem(gx, gy)
    /\ steps' = steps + 1
    /\ UNCHANGED <<a, b, ipc, ires>>
    /\ UNCHANGED fracVars

\* the loop is left, returning x without abs
GCDReturnNoAbs ==
    /\ ipc = "gcd_loop"
    /\ gy = 0
    /\ ires' = gx
    /\ ipc' = "gcd_done"
    /\ UNCHANGED <<a, b, gx, gy, steps>>
    /\ UNCHANGED fracVars

\* the loop is left: return abs(x)
GCDReturn ==
    /\ ipc = "gcd_loop"
    /\ gy = 0
    /\ ires' = abs(gx)
    /\ ipc' = "gcd_done"
    /\ UNCHANGED <<a, b, gx, gy, steps>>
    /\ UNCHANGED fracVars

CallLCM ==
    /\ ipc = "idle"
    /\ IF LCMPanics(a, b)
       THEN /\ ipc' = "lcm_panic"
            /\ UNCHANGED ires
       ELSE /\ ipc' = "lcm_done"
            /\ ires' = LCM(a, b)
    /\ UNCHANGED <<a, b, gx, gy, steps>>
    /\ UNCHANGED fracVars

\* ------------------------------------------------------ specifications ----
\* one call of any method of F, or of Norm, on operands x, y
Init == InitFrac(MaxVal, 1) /\ InitInt(0)

Next ==
    \/ CallMul
    \/ CallDiv
    \/ CallAdd
    \/ CallSub
    \/ CallReduce
    \/ CallNormTo
    \/ CallInv
    \/ CallAbs
    \/ CallCmp
    \/ CallIsNeg
    \/ CallFloat64
    \/ CallAssert
    \/ CallString
    \/ CallNorm

Spec == Init /\ [][Next]_vars

\* a chain of arithmetic methods and Reduce, every argument being y
InitChain == InitFrac(MaxChainVal, MaxChain) /\ InitInt(0)

NextChain ==
    \/ CallMul
    \/ CallDiv
    \/ CallAdd
    \/ CallSub
    \/ CallReduce

SpecChain == InitChain /\ [][NextChain]_vars

\* one call of GCD, taken an iteration at a time, or of LCM; a call that
\* has started keeps running
InitArgs == InitFrac(0, 0) /\ InitInt(MaxGCDArg)

NextInt ==
    \/ GCDEnter
    \/ GCDStep
    \/ GCDReturn
    \/ CallLCM

SpecInt == InitArgs /\ [][NextInt]_vars /\ WF_vars(NextInt)

\* ------------------------------------------------------------- claims ----
Max(i, j) == IF i >= j THEN i ELSE j

Sgn(i) == IF i < 0 THEN -1 ELSE IF i > 0 THEN 1 ELSE 0

\* k divides n, for k > 0
Divides(k, n) == abs(n) % k = 0

\* p and q, read as N/D, are equal when cross-multiplied
SameValue(p, q) == p.N * q.D = q.N * p.D

\* the one call made is name
Called(name) == calls = <<name>>

\* C1: after x.Add(y), x.Sub(y), x.Mul(y) or x.Div(y) the result's
\* denominator is, in absolute value, at least max(|x.D|, |y.D|)
C1_DenominatorNeverSmaller ==
    (Called("Add") \/ Called("Sub") \/ Called("Mul") \/ Called("Div"))
        => abs(acc.D) >= Max(abs(x.D), abs(y.D))

\* C2: for nonzero denominators Norm(x, y) returns two fractions over one
\* shared denominator, each of the same value as its input
C2_NormEquivalents ==
    (Called("Norm") /\ x.D # 0 /\ y.D # 0)
        => /\ ~panicked
           /\ acc.D = acc2.D
           /\ SameValue(acc, x)
           /\ SameValue(acc2, y)

\* C3: for nonzero denominators x.NormTo(y) returns a fraction of the same
\* value as x whose denominator is a common multiple of x.Reduce().D and y.D
C3_NormToEquivalent ==
    (Called("NormTo") /\ x.D # 0 /\ y.D # 0)
        => /\ ~panicked
           /\ SameValue(acc, x)
           /\ Divides(Reduce(x).D, acc.D)
           /\ Divides(abs(y.D), acc.D)

\* C4: for x other than (0, 0), x.Reduce() returns x in lowest terms with a
\* non-negative denominator: r.D >= 0, GCD(r.N, r.D) = 1, r of the same
\* value as x
C4_ReduceLowestTerms ==
    (Called("Reduce") /\ x # F(0, 0))
        => /\ ~panicked
           /\ acc.D >= 0
           /\ GCD(acc.N, acc.D) = 1
           /\ \A k \in 2..MaxVal : ~(Divides(k, acc.N) /\ Divides(k, acc.D))
           /\ SameValue(acc, x)

\* Reduce was called on a fraction with a negative denominator and a common
\* factor, and returned
C4_Witness ==
    /\ Called("Reduce")
    /\ ~panicked
    /\ x.D < 0
    /\ GCD(x.N, x.D) > 1
    /\ acc.D > 0
    /\ acc.D < abs(x.D)

\* the inputs on which C5 says a call divides by zero
C5_FaultSet ==
    \/ Called("Assert") /\ x.D = 0
    \/ Called("Reduce") /\ x = F(0, 0)
    \/ (Called("NormTo") \/ Called("Norm")) /\ (x = F(0, 0) \/ y = F(0, 0))

\* C5: a call divides by zero exactly on these inputs: Assert with D = 0,
\* and Reduce, NormTo, Norm with an input fraction that is (0, 0)
C5_FaultsExactly == (Len(calls) = 1) => (panicked <=> C5_FaultSet)

\* x.N/x.D compared with y.N/y.D, for nonzero denominators
ValueCmp(p, q) ==
    LET s == Sgn(p.D) * Sgn(q.D)
    IN  Sgn(s * (p.N * q.D - q.N * p.D))

\* C6: for nonzero denominators of the same sign x.Cmp(y) is -1, 0 or +1 as
\* the value of x is less than, equal to or greater than the value of y
C6_CmpSameSign ==
    (Called("Cmp") /\ x.D # 0 /\ y.D # 0 /\ (x.D > 0) = (y.D > 0))
        => cmp = ValueCmp(x, y)

\* C7: GCD's loop terminates, and GCD(a, b) = GCD(b, a), GCD(a, b) >= 0,
\* GCD(a, 0) = |a|, and for (a, b) # (0, 0) the result is the largest
\* positive integer dividing both
C7_GCDResult ==
    ipc = "gcd_done"
        => /\ ires = GCD(b, a)
           /\ ires >= 0
           /\ (b = 0 => ires = abs(a))
           /\ (a # 0 \/ b # 0)
                => /\ ires > 0
                   /\ Divides(ires, a)
                   /\ Divides(ires, b)
                   /\ \A k \in 1..Max(abs(a), abs(b)) :
                        (Divides(k, a) /\ Divides(k, b)) => k <= ires

C9_DivMulRoundTrip_AnyX ==
    (calls = <<"Div", "Mul", "Reduce">> /\ x # F(0, 0) /\ y.N # 0 /\ y.D # 0)
        => ~panicked /\ acc = Reduce(x)

\* C9 amended: the same, provided x.D # 0 or y.D > 0
C9_DivMulRoundTrip ==
    (calls = <<"Div", "Mul", "Reduce">> /\ x # F(0, 0) /\ y.N # 0 /\ y.D # 0
        /\ (x.D # 0 \/ y.D > 0))
        => ~panicked /\ acc = Reduce(x)

\* the round trip was made with a negative divisor numerator, so that Div
\* negated y, and reduced a fraction that Div and Mul had scaled up
C9_Witness ==
    /\ calls = <<"Div", "Mul", "Reduce">>
    /\ ~panicked
    /\ y.N < 0
    /\ y.D # 0
    /\ x.N # 0
    /\ x.D # 0
    /\ acc = Reduce(x)
    /\ acc # x

\* C10: LCM never divides by zero; LCM(a, b) = a when a = b or a = -b;
\* for nonzero a, b with |a| # |b|, LCM(a, b) >= 0, LCM(a, b) * GCD(a, b) =
\* |a * b| and LCM(a, b) is the least positive common multiple
C10_LCM ==
    /\ ipc # "lcm_panic"
    /\ ipc = "lcm_done"
        => /\ (a = b \/ a = -b) => ires = a
           /\ (a # 0 /\ b # 0 /\ abs(a) # abs(b))
                => /\ ires >= 0
                   /\ ires * GCD(a, b) = abs(a * b)
                   /\ ires > 0
                   /\ Divides(abs(a), ires)
                   /\ Divides(abs(b), ires)
                   /\ \A k \in 1..(ires - 1) :
                        ~(Divides(abs(a), k) /\ Divides(abs(b), k))

\* LCM returned for a negative and a positive argument with a common factor
C10_Witness ==
    /\ ipc = "lcm_done"
    /\ a < 0
    /\ b > 0
    /\ abs(a) # abs(b)
    /\ GCD(a, b) > 1
    /\ ires > 0

====
